---- MODULE Spec2Model ----
(***************************************************************************)
(* A model of terminal/color.py: the color resolver (rgb2ansi, hex2ansi,   *)
(* _color2ansi), the Color object (constructor, fluent attribute access,   *)
(* rendering) and the module-level color, background and style functions.  *)
(*                                                                         *)
(* Python text is a sequence of one-character strings; the escape          *)
(* character \x1b is the element "ESC".  An optional integer (None or an   *)
(* int) is the empty sequence or a one-element sequence.  Python lists are *)
(* objects of a heap: a variable holds a reference (an index into `lists`) *)
(* so that two names bound to one list see each other's append.            *)
(***************************************************************************)
EXTENDS Integers, Sequences, FiniteSets, TLC

VARIABLES
    caps,       \* _is_color_supported, _is_256color_supported
    lists,      \* heap of Python list objects: reference -> sequence of codes
    objs,       \* the Color objects created so far: id -> fields
    last,       \* the last call made on the Color API and what it was given
    pc,         \* where the function being run stands: "call", "loop", "return"
    rgb,        \* rgb2ansi: the arguments r, g, b
    loop,       \* rgb2ansi: the locals grayscale, poss, step (in halves)
    rret,       \* rgb2ansi: the returned value
    cspec,      \* _color2ansi: the argument
    cret,       \* _color2ansi: the returned value or the raised error
    self,       \* Color.__unicode__: the object rendered
    out         \* Color.__unicode__: the returned text

vars == <<caps, lists, objs, last, pc, rgb, loop, rret, cspec, cret, self, out>>

(***************************************************************************)
(* Bounds of the model.                                                    *)
(***************************************************************************)
MaxObjs == 2        \* Color objects alive in one run
MaxAttrObjs == 1    \* the same, where only fluent access is looked at
MaxLen == 2         \* longest styles list a fluent access may extend
MaxCodeLen == 6     \* longest text, after an optional '#', given to _color2ansi
MaxStyles == 2      \* longest styles list rendered

(***************************************************************************)
(* Module constants.                                                       *)
(***************************************************************************)
_reset == <<"ESC", "[", "0", ";", "3", "9", ";", "4", "9", "m">>

_styles == << <<"b","o","l","d">>, <<"f","a","i","n","t">>,
              <<"i","t","a","l","i","c">>,
              <<"u","n","d","e","r","l","i","n","e">>,
              <<"b","l","i","n","k">>, <<"o","v","e","r","l","i","n","e">>,
              <<"i","n","v","e","r","s","e">>,
              <<"c","o","n","c","e","a","l">>, <<"s","t","r","i","k","e">> >>

_colors == << <<"b","l","a","c","k">>, <<"r","e","d">>,
              <<"g","r","e","e","n">>, <<"y","e","l","l","o","w">>,
              <<"b","l","u","e">>, <<"m","a","g","e","n","t","a">>,
              <<"c","y","a","n">>, <<"w","h","i","t","e">> >>

\* tuple.index(x) of Python, zero-based; x is in the tuple
Index(tuple, x) == (CHOOSE i \in 1..Len(tuple) : tuple[i] = x) - 1

Range(s) == {s[i] : i \in 1..Len(s)}

(***************************************************************************)
(* rgb2ansi.  The local `step` is a float that takes the values 2.5, 45.0, *)
(* 87.5, ...; the model holds twice its value, so that step = 2.5 is 5 and *)
(* `step += 42.5` adds 85.  int() of a float truncates toward zero.        *)
(***************************************************************************)
Min3(r, g, b) == IF r <= g /\ r <= b THEN r ELSE IF g <= b THEN g ELSE b
Max3(r, g, b) == IF r >= g /\ r >= b THEN r ELSE IF g >= b THEN g ELSE b

\* int(float(a) / b) for b > 0
TruncDiv(a, b) == IF a >= 0 THEN a \div b ELSE -((-a) \div b)

LoopInit == [grayscale |-> FALSE, poss |-> TRUE, step |-> 5]

\* LoopBody with `step += 42`: the half of the step lost
LoopBodyWholeStep(r, g, b, l) ==
    IF 2 * Min3(r, g, b) < l.step
    THEN [grayscale |-> 2 * Max3(r, g, b) < l.step, poss |-> FALSE,
          step |-> l.step + 84]
    ELSE [l EXCEPT !.step = l.step + 84]

\* one pass of the body of `while poss`
LoopBody(r, g, b, l) ==
    IF 2 * Min3(r, g, b) < l.step
    THEN [grayscale |-> 2 * Max3(r, g, b) < l.step, poss |-> FALSE,
          step |-> l.step + 85]
    ELSE [l EXCEPT !.step = l.step + 85]

GrayIndex(r, g, b) == 232 + TruncDiv(r + g + b, 33)

CubeIndex(r, g, b) ==
    16 + TruncDiv(6 * r, 256) * 36 + TruncDiv(6 * g, 256) * 6
       + TruncDiv(6 * b, 256) * 1

\* the two return statements
RgbReturn(r, g, b, l) ==
    IF l.grayscale THEN GrayIndex(r, g, b) ELSE CubeIndex(r, g, b)

RECURSIVE RgbLoop(_, _, _, _)
RgbLoop(r, g, b, l) ==
    IF l.poss THEN RgbLoop(r, g, b, LoopBody(r, g, b, l)) ELSE l

rgb2ansi(r, g, b) == RgbReturn(r, g, b, RgbLoop(r, g, b, LoopInit))

(***************************************************************************)
(* A call either returns a value or raises: val is meaningful when err is  *)
(* the empty string.                                                       *)
(***************************************************************************)
Return(v) == [err |-> "", val |-> v]
Raise(e) == [err |-> e, val |-> 0]

HexValue ==
    [c \in {"0","1","2","3","4","5","6","7","8","9"} |->
        CASE c = "0" -> 0 [] c = "1" -> 1 [] c = "2" -> 2 [] c = "3" -> 3
          [] c = "4" -> 4 [] c = "5" -> 5 [] c = "6" -> 6 [] c = "7" -> 7
          [] c = "8" -> 8 [] c = "9" -> 9] @@
    [c \in {"a","b","c","d","e","f"} |->
        CASE c = "a" -> 10 [] c = "b" -> 11 [] c = "c" -> 12
          [] c = "d" -> 13 [] c = "e" -> 14 [] c = "f" -> 15] @@
    [c \in {"A","B","C","D","E","F"} |->
        CASE c = "A" -> 10 [] c = "B" -> 11 [] c = "C" -> 12
          [] c = "D" -> 13 [] c = "E" -> 14 [] c = "F" -> 15]

IsHexDigit(c) == c \in DOMAIN HexValue
IsSpace(c) == c \in {" "}
IsSign(c) == c \in {"+", "-"}

(***************************************************************************)
(* int(o, 16) for a two-character string o, the only length hex2ansi       *)
(* passes.  The builtin skips white space around the number and takes one  *)
(* sign before it; it needs a digit, and a "0x" prefix with nothing after  *)
(* it is no number.                                                        *)
(***************************************************************************)
int16(o) ==
    LET a == o[1]
        b == o[2]
    IN  CASE IsHexDigit(a) /\ IsHexDigit(b) ->
                Return(16 * HexValue[a] + HexValue[b])
          [] IsSpace(a) /\ IsHexDigit(b) -> Return(HexValue[b])
          [] IsHexDigit(a) /\ IsSpace(b) -> Return(HexValue[a])
          [] IsSign(a) /\ IsHexDigit(b) ->
                Return(IF a = "-" THEN -HexValue[b] ELSE HexValue[b])
          [] OTHER -> Raise("ValueError")

\* rgb2ansi(*map(int16, parts)): map raises at the first part int() rejects
Rgb2AnsiOfParts(parts) ==
    LET n == [i \in 1..3 |-> int16(parts[i])]
    IN  IF \E i \in 1..3 : n[i].err # ""
        THEN Raise("ValueError")
        ELSE Return(rgb2ansi(n[1].val, n[2].val, n[3].val))

hex2ansi(code0) ==
    LET code == IF code0 # <<>> /\ Head(code0) = "#" THEN Tail(code0)
                ELSE code0
    IN  IF Len(code) = 3
        THEN Rgb2AnsiOfParts([i \in 1..3 |-> <<code[i], code[i]>>])
        ELSE IF Len(code) # 6
        THEN Raise("ValueError")
        ELSE Rgb2AnsiOfParts(<<SubSeq(code, 1, 2), SubSeq(code, 3, 4),
                               SubSeq(code, 5, 6)>>)

(***************************************************************************)
(* A Python value is tagged with its type: "str" (v is the text), "tuple"  *)
(* (t is the sequence of numbers), "int" (n is the number), "NoneType",    *)
(* and "Color" (n is the identity of the object).                          *)
(***************************************************************************)
PyStr(s) == [type |-> "str", v |-> s, n |-> 0, t |-> <<>>]
PyTuple(t) == [type |-> "tuple", v |-> <<>>, n |-> 0, t |-> t]
PyInt(i) == [type |-> "int", v |-> <<>>, n |-> i, t |-> <<>>]
PyNone == [type |-> "NoneType", v |-> <<>>, n |-> 0, t |-> <<>>]

IsColorName(color) == color.type = "str" /\ color.v \in Range(_colors)

_color2ansi(color) ==
    IF IsColorName(color) THEN Return(Index(_colors, color.v))
    ELSE IF color.type = "str" THEN hex2ansi(color.v)
    ELSE IF color.type = "tuple"
    THEN IF Len(color.t) = 3
         THEN Return(rgb2ansi(color.t[1], color.t[2], color.t[3]))
         ELSE Raise("TypeError")
    ELSE Raise("ValueError")

(***************************************************************************)
(* Color.  An object is a record of its attributes; `styles` is the        *)
(* reference of a list of the heap.  `around` is not an attribute: it      *)
(* remembers the Color the object was constructed around (0: from text).   *)
(*                                                                         *)
(* The `styles` argument of the constructor is None, a list other names    *)
(* are bound to (its reference), or a list only the call holds (its        *)
(* content).                                                               *)
(***************************************************************************)
NoStyles == [kind |-> "None", ref |-> 0, lit |-> <<>>]
ListRef(r) == [kind |-> "ref", ref |-> r, lit |-> <<>>]
ListLit(s) == [kind |-> "lit", ref |-> 0, lit |-> s]

ArgContent(L, a) == IF a.kind = "ref" THEN L[a.ref] ELSE a.lit

PyColor(id) == [type |-> "Color", v |-> <<>>, n |-> id, t |-> <<>>]

\* bool(x) of Python
Truthy(x) ==
    CASE x.type = "NoneType" -> FALSE
      [] x.type = "int" -> x.n # 0
      [] x.type = "tuple" -> x.t # <<>>
      [] OTHER -> x.v # <<>>

\* MergeColor with `if not fgcolor`
MergeColorIfFalsy(color, rawcolor) ==
    IF ~Truthy(color) THEN rawcolor ELSE color

\* `if fgcolor is None: fgcolor = raw.fgcolor`
MergeColor(color, rawcolor) ==
    IF color.type = "NoneType" THEN rawcolor ELSE color

\* `if fgcolor and not isinstance(fgcolor, int): fgcolor = _color2ansi(fgcolor)`
NormColor(color) ==
    IF Truthy(color) /\ color.type # "int"
    THEN LET r == _color2ansi(color)
         IN  IF r.err = "" THEN Return(PyInt(r.val)) ELSE r
    ELSE Return(color)

\* the codes of set(styles + raw.styles)
MergedSet(styles, rawstyles) == Range(styles \o rawstyles)

\* list(set): the elements of the set, each once, in an order Python chooses
ListOfSet(S) == {s \in [1..Cardinality(S) -> S] : Range(s) = S}

\* the styles after the merge with raw, before `styles or []`
MergeStyles(styles, rawref, order) ==
    IF styles.kind = "None" THEN ListRef(rawref) ELSE ListLit(order)

\* `self.styles = styles or []`: the list kept, or a new empty one
KeepsList(L, styles) == styles.kind = "ref" /\ L[styles.ref] # <<>>

Color__init__(O, L, raw, fgcolor, bgcolor, styles, order) ==
    LET isColor == raw.type = "Color"
        A == O[raw.n]
        text == IF isColor THEN A.unicode_text ELSE raw.v
        fg1 == IF isColor THEN MergeColor(fgcolor, A.fgcolor) ELSE fgcolor
        bg1 == IF isColor THEN MergeColor(bgcolor, A.bgcolor) ELSE bgcolor
        st1 == IF isColor THEN MergeStyles(styles, A.styles, order)
               ELSE styles
        fg2 == NormColor(fg1)
        bg2 == NormColor(bg1)
        keep == KeepsList(L, st1)
        new == [unicode_text |-> text,
                fgcolor |-> fg2.val,
                bgcolor |-> bg2.val,
                styles |-> IF keep THEN st1.ref ELSE Len(L) + 1,
                around |-> IF isColor THEN raw.n ELSE 0]
    IN  IF raw.type \notin {"str", "unicode", "Color"}
        THEN [err |-> "ValueError", objs |-> O, lists |-> L]
        ELSE IF fg2.err # "" THEN [err |-> fg2.err, objs |-> O, lists |-> L]
        ELSE IF bg2.err # "" THEN [err |-> bg2.err, objs |-> O, lists |-> L]
        ELSE [err |-> "",
              objs |-> Append(O, new),
              lists |-> IF keep THEN L ELSE Append(L, st1.lit)]

EndsWith(key, suffix) ==
    /\ Len(key) >= Len(suffix)
    /\ SubSeq(key, Len(key) - Len(suffix) + 1, Len(key)) = suffix

\* StyleCode without the `+ 1`
StyleCodeZeroBased(key) == Index(_styles, key)

\* `code = _styles.index(key)`, `code + 1`
StyleCode(key) == Index(_styles, key) + 1

\* __getattr__ runs for a key that is no attribute or method of the object
Color__getattr__(O, L, id, key) ==
    LET name == SubSeq(key, 1, Len(key) - 3)
    IN  IF EndsWith(key, <<"_", "b", "g">>)
        THEN IF name \notin Range(_colors)
             THEN [err |-> "AttributeError", objs |-> O, lists |-> L]
             ELSE [err |-> "",
                   objs |-> [O EXCEPT ![id].bgcolor =
                                PyInt(Index(_colors, name))],
                   lists |-> L]
        ELSE IF key \in Range(_colors)
        THEN [err |-> "",
              objs |-> [O EXCEPT ![id].fgcolor = PyInt(Index(_colors, key))],
              lists |-> L]
        ELSE IF key \in Range(_styles)
        THEN [err |-> "",
              objs |-> O,
              lists |-> [L EXCEPT ![O[id].styles] =
                            Append(@, StyleCode(key))]]
        ELSE [err |-> "AttributeError", objs |-> O, lists |-> L]

(***************************************************************************)
(* Color.__unicode__.  `o` holds the attributes read: unicode_text,        *)
(* fgcolor, bgcolor and the content of styles.  '%i' and str() write an    *)
(* integer in decimal.                                                     *)
(***************************************************************************)
DigitChar(d) == <<"0", "1", "2", "3", "4", "5", "6", "7", "8", "9">>[d + 1]

RECURSIVE Decimal(_)
Decimal(n) ==
    IF n < 0 THEN <<"-">> \o Decimal(-n)
    ELSE IF n < 10 THEN <<DigitChar(n)>>
    ELSE Decimal(n \div 10) \o <<DigitChar(n % 10)>>

\* ';'.join(str(i) for i in styles)
RECURSIVE JoinCodes(_)
JoinCodes(styles) ==
    IF styles = <<>> THEN <<>>
    ELSE IF Len(styles) = 1 THEN Decimal(styles[1])
    ELSE Decimal(styles[1]) \o <<";">> \o JoinCodes(Tail(styles))

\* '\x1b[<code>m%s%s' % (decorated, _reset)
Escape(code, decorated) ==
    <<"ESC", "[">> \o code \o <<"m">> \o decorated \o _reset

\* IsNotNone with `if self.fgcolor:`
IsTruthy(color) == Truthy(color)

\* `self.fgcolor is not None`
IsNotNone(color) == color.type # "NoneType"

\* IsBasic with `<= 8`
IsBasicOrEight(index) == index <= 8

\* `self.fgcolor < 8`
IsBasic(index) == index < 8

Decorate256(o) ==
    LET fg == IF IsNotNone(o.fgcolor)
              THEN Escape(<<"3", "8", ";", "5", ";">> \o Decimal(o.fgcolor.n),
                          o.unicode_text)
              ELSE o.unicode_text
    IN  IF IsNotNone(o.bgcolor)
        THEN Escape(<<"4", "8", ";", "5", ";">> \o Decimal(o.bgcolor.n), fg)
        ELSE fg

DecorateBasic(o) ==
    LET fg == IF IsNotNone(o.fgcolor) /\ IsBasic(o.fgcolor.n)
              THEN Escape(Decimal(30 + o.fgcolor.n), o.unicode_text)
              ELSE o.unicode_text
    IN  IF IsNotNone(o.bgcolor) /\ IsBasic(o.bgcolor.n)
        THEN Escape(Decimal(40 + o.bgcolor.n), fg)
        ELSE fg

DecorateStyles(o, decorated) ==
    IF o.styles # <<>> THEN Escape(JoinCodes(o.styles), decorated)
    ELSE decorated

\* Color__unicode__ without `if not _is_color_supported`
Color__unicode__Unchecked(o, c) ==
    DecorateStyles(o, IF c.is256 THEN Decorate256(o) ELSE DecorateBasic(o))

Color__unicode__(o, c) ==
    IF ~c.color THEN o.unicode_text
    ELSE DecorateStyles(o, IF c.is256 THEN Decorate256(o)
                           ELSE DecorateBasic(o))

(***************************************************************************)
(* The module-level functions.  _create_color_func closes over its         *)
(* arguments: every call of the function it returns passes the same        *)
(* fgcolor, bgcolor and styles objects.  The lists [1] .. [9] of the style *)
(* functions are heap lists 1 .. 9; without 256 colors gray and gray_bg    *)
(* hold the lists 10 and 11.                                               *)
(***************************************************************************)
_create_color_func(fgcolor, bgcolor, styles) ==
    [fgcolor |-> fgcolor, bgcolor |-> bgcolor, styles |-> styles]

StyleFuncs ==
    [n \in {"bold", "faint", "italic", "underline", "blink", "overline",
            "inverse", "conceal", "strike"} |->
        _create_color_func(PyNone, PyNone,
            ListRef(CASE n = "bold" -> 1 [] n = "faint" -> 2
                      [] n = "italic" -> 3 [] n = "underline" -> 4
                      [] n = "blink" -> 5 [] n = "overline" -> 6
                      [] n = "inverse" -> 7 [] n = "conceal" -> 8
                      [] n = "strike" -> 9))]

ColorFuncIndex(n) ==
    CASE n \in {"black", "black_bg"} -> 0 [] n \in {"red", "red_bg"} -> 1
      [] n \in {"green", "green_bg"} -> 2 [] n \in {"yellow", "yellow_bg"} -> 3
      [] n \in {"blue", "blue_bg"} -> 4 [] n \in {"magenta", "magenta_bg"} -> 5
      [] n \in {"cyan", "cyan_bg"} -> 6 [] n \in {"white", "white_bg"} -> 7

FgFuncs ==
    [n \in {"black", "red", "green", "yellow", "blue", "magenta", "cyan",
            "white"} |->
        _create_color_func(PyInt(ColorFuncIndex(n)), PyNone, NoStyles)]

BgFuncs ==
    [n \in {"black_bg", "red_bg", "green_bg", "yellow_bg", "blue_bg",
            "magenta_bg", "cyan_bg", "white_bg"} |->
        _create_color_func(PyNone, PyInt(ColorFuncIndex(n)), NoStyles)]

GrayFuncs(is256) ==
    IF is256
    THEN ("gray" :> _create_color_func(PyInt(8), PyNone, NoStyles)) @@
         ("gray_bg" :> _create_color_func(PyNone, PyInt(8), NoStyles))
    ELSE ("gray" :> _create_color_func(PyInt(0), PyNone, ListRef(10))) @@
         ("gray_bg" :> _create_color_func(PyNone, PyInt(0), ListRef(11)))

color_funcs(is256) ==
    LET g == GrayFuncs(is256)
    IN  StyleFuncs @@ FgFuncs @@ BgFuncs @@ g @@
        ("grey" :> g["gray"]) @@ ("grey_bg" :> g["gray_bg"])

\* the lists the module creates when it is imported
ImportLists(is256) ==
    << <<1>>, <<2>>, <<3>>, <<4>>, <<5>>, <<6>>, <<7>>, <<8>>, <<9>> >> \o
    (IF is256 THEN << >> ELSE << <<8>>, <<1>> >>)

\* check_color_support, check_256color_support: 256 colors need color
CapsStates ==
    {c \in [color : BOOLEAN, is256 : BOOLEAN] : c.is256 => c.color}

(***************************************************************************)
(* The inputs of the calls.  Each specification below draws the arguments  *)
(* of its calls from the sets it names.                                    *)
(***************************************************************************)
Chars(name) ==
    CASE name = "bold" -> _styles[1] [] name = "underline" -> _styles[4]
      [] name = "black" -> _colors[1] [] name = "red" -> _colors[2]
      [] name = "blue" -> _colors[5]
      [] name = "blue_bg" -> _colors[5] \o <<"_", "b", "g">>

BG(name) == name \o <<"_", "b", "g">>

RawInputs(texts) ==
    {PyStr(t) : t \in texts} \cup {PyNone} \cup
    {PyColor(id) : id \in 1..Len(objs)}

(***************************************************************************)
(* The calls on the Color API.                                             *)
(***************************************************************************)
Snapshot(O, L, id) ==
    [unicode_text |-> O[id].unicode_text, fgcolor |-> O[id].fgcolor,
     bgcolor |-> O[id].bgcolor, styles |-> L[O[id].styles]]

NoSnapshot ==
    [unicode_text |-> <<>>, fgcolor |-> PyNone, bgcolor |-> PyNone,
     styles |-> <<>>]

\* the orders list(set(styles + raw.styles)) may come out in
Orders(raw, styles) ==
    IF raw.type = "Color" /\ styles.kind # "None"
    THEN ListOfSet(MergedSet(ArgContent(lists, styles),
                             lists[objs[raw.n].styles]))
    ELSE {<< >>}

\* the call ends: r is what Color.__init__ made, or the error it raised
CallReturns(r, op, func, raw, fgcolor, bgcolor, styles) ==
    /\ objs' = r.objs
    /\ lists' = r.lists
    /\ last' = [op |-> op, func |-> func, key |-> <<>>,
                id |-> IF r.err = "" THEN Len(r.objs) ELSE 0,
                raw |-> raw, fgcolor |-> fgcolor,
                bgcolor |-> bgcolor,
                given |-> styles.kind # "None",
                styles |-> ArgContent(lists, styles),
                before |-> IF raw.type = "Color"
                           THEN Snapshot(objs, lists, raw.n)
                           ELSE NoSnapshot,
                err |-> r.err]

Construct(op, func, raw, fgcolor, bgcolor, styles, maxobjs) ==
    /\ Len(objs) < maxobjs
    /\ \E order \in Orders(raw, styles) :
          CallReturns(Color__init__(objs, lists, raw, fgcolor, bgcolor,
                                   styles, order),
                     op, func, raw, fgcolor, bgcolor, styles)
    /\ UNCHANGED <<caps, pc, rgb, loop, rret, cspec, cret, self, out>>

\* name(raw) for a module-level function: color_func of _create_color_func
CallColorFunc(names, texts, maxobjs) ==
    \E name \in names, raw \in RawInputs(texts) :
        LET f == color_funcs(caps.is256)[name]
        IN  Construct("color_func", name, raw, f.fgcolor, f.bgcolor,
                      f.styles, maxobjs)

\* Color(raw, fgcolor, bgcolor, styles) called directly
NewColor(texts, colors, styleses, maxobjs) ==
    \E raw \in RawInputs(texts), color \in colors, styles \in styleses :
        Construct("Color", "", raw, color[1], color[2], styles, maxobjs)

\* getattr(objs[id], key)
GetAttr(keys) ==
    \E id \in 1..Len(objs), key \in keys :
        LET r == Color__getattr__(objs, lists, id, key)
        IN  /\ key \in Range(_styles) => Len(lists[objs[id].styles]) < MaxLen
            /\ objs' = r.objs
            /\ lists' = r.lists
            /\ last' = [op |-> "getattr", func |-> "", key |-> key,
                        id |-> id, raw |-> PyNone, fgcolor |-> PyNone,
                        bgcolor |-> PyNone, given |-> FALSE, styles |-> <<>>,
                        before |-> Snapshot(objs, lists, id), err |-> r.err]
            /\ UNCHANGED <<caps, pc, rgb, loop, rret, cspec, cret, self, out>>

NoCall ==
    [op |-> "import", func |-> "", key |-> <<>>, id |-> 0, raw |-> PyNone,
     fgcolor |-> PyNone, bgcolor |-> PyNone, given |-> FALSE,
     styles |-> <<>>, before |-> NoSnapshot, err |-> ""]

\* the module once it is imported: the capability flags and the lists
Imported ==
    /\ caps \in CapsStates
    /\ lists = ImportLists(caps.is256)
    /\ objs = << >>
    /\ last = NoCall

\* no Color made, no function running
Init ==
    /\ Imported
    /\ pc = "idle"
    /\ rgb = <<0, 0, 0>> /\ loop = LoopInit /\ rret = 0
    /\ cspec = PyNone /\ cret = Return(0)
    /\ self = NoSnapshot /\ out = <<>>

(***************************************************************************)
(* Spec: styles and the lists that hold them.  Values are made by the      *)
(* style and color functions and by Color itself, wrapped, and extended by *)
(* fluent access.                                                          *)
(***************************************************************************)
Texts == { <<"x">> }
FuncInputs == {"bold", "underline", "red", "blue_bg"}
KeyInputs == {Chars("bold"), Chars("underline"), BG(Chars("blue"))}
ColorInputs == { <<PyNone, PyNone>> }
StylesInputs == {NoStyles, ListLit(<<4, 1>>)}

Next ==
    \/ CallColorFunc(FuncInputs, Texts, MaxObjs)
    \/ NewColor(Texts, ColorInputs, StylesInputs, MaxObjs)
    \/ GetAttr(KeyInputs)

Spec == Init /\ [][Next]_vars

(***************************************************************************)
(* SpecMerge: the colors of a value constructed around another.            *)
(***************************************************************************)
MergeTexts == { <<"x">>, <<"h", "i">> }
MergeFuncs == {"black", "blue_bg", "bold"}
MergeKeys == {Chars("red")}
MergeColors ==
    { <<PyNone, PyNone>>, <<PyInt(255), PyInt(7)>>, <<PyNone, PyInt(0)>>,
      <<PyStr(<<"z", "z">>), PyNone>> }
MergeStyles0 == {NoStyles}

NextMerge ==
    \/ CallColorFunc(MergeFuncs, MergeTexts, MaxObjs)
    \/ NewColor(MergeTexts, MergeColors, MergeStyles0, MaxObjs)
    \/ GetAttr(MergeKeys)

SpecMerge == Init /\ [][NextMerge]_vars

(***************************************************************************)
(* SpecAttr: fluent access by every kind of name.                          *)
(***************************************************************************)
AttrTexts == { <<"x">> }
AttrFuncs == {"bold"}
AttrKeys ==
    {Chars("bold"), Chars("black"), BG(Chars("blue")),
     BG(Chars("bold")), <<"_", "b", "g">>, <<"f", "o", "o">>}
AttrColors == { <<PyNone, PyNone>> }
AttrStyles == {NoStyles}

NextAttr ==
    \/ CallColorFunc(AttrFuncs, AttrTexts, MaxAttrObjs)
    \/ NewColor(AttrTexts, AttrColors, AttrStyles, MaxAttrObjs)
    \/ GetAttr(AttrKeys)

SpecAttr == Init /\ [][NextAttr]_vars

(***************************************************************************)
(* SpecRgb: rgb2ansi(r, g, b), one pass of its loop at a time.             *)
(***************************************************************************)
RgbEdges ==
    {0, 2, 3, 43, 44, 45, 86, 87, 88, 129, 130, 172, 173, 214, 215, 255}

InitRgb ==
    /\ Imported
    /\ pc = "loop"
    /\ rgb \in (0..255) \X RgbEdges \X RgbEdges
    /\ loop = LoopInit /\ rret = 0
    /\ cspec = PyNone /\ cret = Return(0)
    /\ self = NoSnapshot /\ out = <<>>

RgbPass ==
    /\ pc = "loop" /\ loop.poss
    /\ loop' = LoopBody(rgb[1], rgb[2], rgb[3], loop)
    /\ UNCHANGED <<caps, lists, objs, last, pc, rgb, rret, cspec, cret, self,
                   out>>

RgbExit ==
    /\ pc = "loop" /\ ~loop.poss
    /\ rret' = RgbReturn(rgb[1], rgb[2], rgb[3], loop)
    /\ pc' = "return"
    /\ UNCHANGED <<caps, lists, objs, last, rgb, loop, cspec, cret, self, out>>

NextRgb == RgbPass \/ RgbExit

SpecRgb == InitRgb /\ [][NextRgb]_vars

(***************************************************************************)
(* SpecResolve: _color2ansi(color) for a text, a tuple, or another value.  *)
(***************************************************************************)
CodeChars == {"0", "f", "z", "+", "-", " "}

\* the texts of n characters, bare and after a '#'
Codes(n) ==
    {prefix \o code : prefix \in {<<>>, <<"#">>}, code \in [1..n -> CodeChars]}

InitResolve ==
    /\ Imported
    /\ pc = "call"
    /\ \/ \E n \in 0..MaxCodeLen : \E code \in Codes(n) : cspec = PyStr(code)
       \/ \E name \in Range(_colors) : cspec = PyStr(name)
       \/ \E t \in {<<255, 0, 0>>, <<0, 0>>} : cspec = PyTuple(t)
       \/ cspec \in {PyNone, PyInt(5)}
    /\ cret = Return(0)
    /\ rgb = <<0, 0, 0>> /\ loop = LoopInit /\ rret = 0
    /\ self = NoSnapshot /\ out = <<>>

Resolve ==
    /\ pc = "call"
    /\ cret' = _color2ansi(cspec)
    /\ pc' = "return"
    /\ UNCHANGED <<caps, lists, objs, last, rgb, loop, rret, cspec, self, out>>

NextResolve == Resolve

SpecResolve == InitResolve /\ [][NextResolve]_vars

(***************************************************************************)
(* SpecRender: unicode(c) for a Color c with any attributes.               *)
(***************************************************************************)
RenderTexts == { <<"h", "i">>, <<>> }
RenderFg == {PyNone} \cup {PyInt(i) : i \in 0..255}
RenderBg == {PyNone} \cup {PyInt(i) : i \in {0, 7, 8, 255}}
RenderStyles == UNION {[1..n -> {1, 9}] : n \in 0..MaxStyles}

InitRender ==
    /\ Imported
    /\ pc = "call"
    /\ self \in [unicode_text : RenderTexts, fgcolor : RenderFg,
                  bgcolor : RenderBg, styles : RenderStyles]
    /\ out = <<>>
    /\ rgb = <<0, 0, 0>> /\ loop = LoopInit /\ rret = 0
    /\ cspec = PyNone /\ cret = Return(0)

Render ==
    /\ pc = "call"
    /\ out' = Color__unicode__(self, caps)
    /\ pc' = "return"
    /\ UNCHANGED <<caps, lists, objs, last, rgb, loop, rret, cspec, cret, self>>

NextRender == Render

SpecRender == InitRender /\ [][NextRender]_vars

(***************************************************************************)
(* The claims.                                                             *)
(***************************************************************************)
Constructed == last.op \in {"color_func", "Color"} /\ last.err = ""
FromText == Constructed /\ last.raw.type = "str"
Around == Constructed /\ last.raw.type = "Color"
Made == objs[last.id]
MadeStyles == lists[Made.styles]
Count(s, c) == Cardinality({i \in 1..Len(s) : s[i] = c})
Times(n, s) == [i \in 1..(n * Len(s)) |-> s[((i - 1) % Len(s)) + 1]]

\* C1: a color, background or style function called on plain text, after
\* any earlier calls and fluent accesses, returns a value with only its own
\* attribute set: a style function the styles [code] and no color, a color
\* function only that fgcolor (or bgcolor) and no style.
C1_FunctionPresetsOneAttribute ==
    (FromText /\ last.op = "color_func") =>
        LET f == last.func
        IN  /\ f \in DOMAIN StyleFuncs =>
                /\ MadeStyles = <<Index(_styles, Chars(f)) + 1>>
                /\ Made.fgcolor = PyNone /\ Made.bgcolor = PyNone
            /\ f \in DOMAIN FgFuncs =>
                /\ Made.fgcolor = PyInt(Index(_colors, Chars(f)))
                /\ Made.bgcolor = PyNone /\ MadeStyles = <<>>
            /\ f \in DOMAIN BgFuncs =>
                /\ Made.bgcolor =
                      PyInt(Index(_colors,
                                  SubSeq(Chars(f), 1, Len(Chars(f)) - 3)))
                /\ Made.fgcolor = PyNone /\ MadeStyles = <<>>

\* C2: the styles of a value constructed around a value A hold every code
\* of A and every newly supplied code exactly once, whether or not styles
\* were supplied.
C2_MergedStylesOnce ==
    Around =>
        \A c \in Range(last.before.styles) \cup Range(last.styles) :
            Count(MadeStyles, c) = 1

\* C3: a value constructed around A has A's text, the supplied palette
\* index as fgcolor (A's fgcolor when none is supplied), and the same for
\* bgcolor.
C3_WrapMergesColors ==
    Around =>
        /\ Made.unicode_text = last.before.unicode_text
        /\ Made.fgcolor = IF last.fgcolor.type = "int" THEN last.fgcolor
                          ELSE last.before.fgcolor
        /\ Made.bgcolor = IF last.bgcolor.type = "int" THEN last.bgcolor
                          ELSE last.before.bgcolor

\* black(A) for an A of fgcolor 255 and bgcolor 7: black, on 7
C3_Witness ==
    /\ Around /\ last.func = "black"
    /\ last.before.fgcolor = PyInt(255) /\ last.before.bgcolor = PyInt(7)
    /\ last.before.unicode_text = <<"h", "i">>
    /\ Made.fgcolor = PyInt(0) /\ Made.bgcolor = PyInt(7)
    /\ Made.unicode_text = <<"h", "i">>

\* C4: without color support the rendering is the text itself, whatever
\* the colors and styles.
C4_PlainWithoutColor ==
    (pc = "return" /\ ~caps.color) => out = self.unicode_text

C4_Witness ==
    /\ pc = "return" /\ ~caps.color
    /\ self.fgcolor = PyInt(0) /\ self.bgcolor = PyInt(8)
    /\ self.styles = <<9, 1>>
    /\ out = <<"h", "i">>

\* the decimal digits of an index 0 .. 255
Dec3(n) ==
    IF n >= 100
    THEN <<DigitChar(n \div 100), DigitChar((n \div 10) % 10), DigitChar(n % 10)>>
    ELSE IF n >= 10 THEN <<DigitChar(n \div 10), DigitChar(n % 10)>>
    ELSE <<DigitChar(n)>>

\* style codes 1 .. 9, in their order, with ';' between them
SemiJoined(styles) ==
    [i \in 1..(2 * Len(styles) - 1) |->
        IF i % 2 = 1 THEN DigitChar(styles[(i + 1) \div 2]) ELSE ";"]

StyleOpen(styles) ==
    IF styles = <<>> THEN <<>>
    ELSE <<"ESC", "[">> \o SemiJoined(styles) \o <<"m">>

Open256(lead, color) ==
    IF color = PyNone THEN <<>>
    ELSE <<"ESC", "[", lead, "8", ";", "5", ";">> \o Dec3(color.n) \o <<"m">>

OpenBasic(base, color) ==
    IF color = PyNone \/ color.n >= 8 THEN <<>>
    ELSE <<"ESC", "[">> \o Dec3(base + color.n) \o <<"m">>

Opened(open) == IF open = <<>> THEN 0 ELSE 1

\* what is opened, outermost first, then the text, then one reset for each
Layered(styles, bg, fg, text) ==
    styles \o bg \o fg \o text \o
    Times(Opened(styles) + Opened(bg) + Opened(fg), _reset)

\* C5: with color and 256 colors the rendering is the style escape (all
\* codes, ';'-joined, in the order of styles) around ESC[48;5;<bg>m around
\* ESC[38;5;<fg>m around the text, each one there when its attribute is
\* present (index 0 too) and each closed by the reset ESC[0;39;49m.
C5_Render256 ==
    (pc = "return" /\ caps.color /\ caps.is256) =>
        out = Layered(StyleOpen(self.styles), Open256("4", self.bgcolor),
                      Open256("3", self.fgcolor), self.unicode_text)

C5_Witness ==
    /\ pc = "return" /\ caps.color /\ caps.is256
    /\ self.fgcolor = PyInt(0) /\ self.bgcolor = PyInt(255)
    /\ self.styles = <<9, 1>>
    /\ out = <<"ESC", "[", "9", ";", "1", "m",
               "ESC", "[", "4", "8", ";", "5", ";", "2", "5", "5", "m",
               "ESC", "[", "3", "8", ";", "5", ";", "0", "m",
               "h", "i">> \o _reset \o _reset \o _reset

\* C6: with color but without 256 colors the rendering has ESC[<30+fg>m
\* (ESC[<40+bg>m) only for an index below 8; an index 8 .. 255 leaves no
\* color escape, only the style escape if styles are set.
C6_RenderBasic ==
    (pc = "return" /\ caps.color /\ ~caps.is256) =>
        out = Layered(StyleOpen(self.styles), OpenBasic(40, self.bgcolor),
                      OpenBasic(30, self.fgcolor), self.unicode_text)

C6_Witness ==
    /\ pc = "return" /\ caps.color /\ ~caps.is256
    /\ self.fgcolor = PyInt(200) /\ self.bgcolor = PyInt(7)
    /\ self.styles = <<1>>
    /\ out = <<"ESC", "[", "1", "m", "ESC", "[", "4", "7", "m", "h", "i">>
             \o _reset \o _reset

\* the thresholds 2.5, 45, 87.5, ... 257.5, doubled
Thresholds == {5 + 85 * k : k \in 0..6}

\* grayscale: max(r, g, b) is below the first threshold min(r, g, b) is below
IsGray(r, g, b) ==
    LET first == CHOOSE t \in Thresholds :
                    /\ 2 * Min3(r, g, b) < t
                    /\ \A u \in Thresholds : 2 * Min3(r, g, b) < u => t <= u
    IN  2 * Max3(r, g, b) < first

\* C7: for r, g, b in 0 .. 255 the loop of rgb2ansi ends (within 7 passes)
\* and the function returns 232 + floor((r+g+b)/33), in 232 .. 255, when
\* the thresholds decide grayscale, and 16 + 36 floor(6r/256) +
\* 6 floor(6g/256) + floor(6b/256), in 16 .. 231, otherwise; (0,0,0) gives
\* 232 and (255,255,255) gives 255.
C7_Rgb2Ansi ==
    LET r == rgb[1]
        g == rgb[2]
        b == rgb[3]
    IN  /\ pc = "loop" => loop.step <= 5 + 7 * 85 /\ ENABLED NextRgb
        /\ pc = "return" =>
            /\ IsGray(r, g, b) =>
                  /\ rret = 232 + (r + g + b) \div 33
                  /\ rret \in 232..255
            /\ ~IsGray(r, g, b) =>
                  /\ rret = 16 + ((6 * r) \div 256) * 36
                               + ((6 * g) \div 256) * 6 + (6 * b) \div 256
                  /\ rret \in 16..231
            /\ rgb = <<0, 0, 0>> => rret = 232
            /\ rgb = <<255, 255, 255>> => rret = 255

C7_Witness ==
    /\ pc = "return" /\ rgb = <<86, 87, 87>> /\ loop.grayscale
    /\ loop.step = 5 + 3 * 85 /\ rret = 239

\* what C8 calls an invalid specification
StripHash(s) == IF s # <<>> /\ s[1] = "#" THEN Tail(s) ELSE s

InvalidSpec(color) ==
    \/ /\ color.type = "str" /\ color.v \notin Range(_colors)
       /\ \/ Len(StripHash(color.v)) \notin {3, 6}
          \/ \E i \in 1..Len(StripHash(color.v)) :
                ~IsHexDigit(StripHash(color.v)[i])
    \/ color.type \notin {"str", "tuple"}

\* C8: resolving a text that is no color name and whose length after one
\* leading '#' is not 3 or 6, or that holds a character that is no
\* hexadecimal digit, or a value that is no text and no sequence, raises
\* the invalid-color error (ValueError) and yields no index.
C8_InvalidSpecRaises ==
    (pc = "return" /\ InvalidSpec(cspec)) => cret.err = "ValueError"

\* the names fluent access knows
BgNames == {BG(c) : c \in Range(_colors)}
Now == Snapshot(objs, lists, last.id)

\* C9: fluent access by a color name sets fgcolor to its index 0 .. 7, by
\* "<color>_bg" sets bgcolor, by a style name appends its code (position
\* in the style list plus 1), each leaving the other attributes alone; any
\* other name raises the unknown-attribute error (AttributeError) and
\* leaves the value as it was.
C9_GetAttr ==
    last.op = "getattr" =>
        LET key == last.key
            was == last.before
        IN  /\ key \in Range(_colors) =>
                /\ \E i \in 0..7 :
                      /\ _colors[i + 1] = key
                      /\ Now = [was EXCEPT !.fgcolor = PyInt(i)]
                /\ last.err = ""
            /\ key \in BgNames =>
                /\ \E i \in 0..7 :
                      /\ BG(_colors[i + 1]) = key
                      /\ Now = [was EXCEPT !.bgcolor = PyInt(i)]
                /\ last.err = ""
            /\ key \in Range(_styles) =>
                /\ \E i \in 1..9 :
                      /\ _styles[i] = key
                      /\ Now = [was EXCEPT !.styles = Append(was.styles, i)]
                /\ last.err = ""
            /\ key \notin Range(_colors) \cup BgNames \cup Range(_styles) =>
                /\ last.err = "AttributeError"
                /\ Now = was

\* .bold on a value that has both colors and a style
C9_Witness ==
    /\ last.op = "getattr" /\ last.key = Chars("bold")
    /\ last.before.fgcolor = PyInt(0) /\ last.before.bgcolor = PyInt(4)
    /\ last.before.styles = <<1>>
    /\ Now = [last.before EXCEPT !.styles = <<1, 1>>]

\* C10: once B is constructed around A, fluent access on either leaves the
\* fgcolor, bgcolor and styles of the other as they were.
C10_NoLeakBetweenValues ==
    [][last'.op = "getattr" =>
         \A p \in 1..Len(objs) :
            (p # last'.id /\ (objs[p].around = last'.id
                              \/ objs[last'.id].around = p))
            => Snapshot(objs', lists', p) = Snapshot(objs, lists, p)]_vars

====
